---- MODULE Spec2Model ----
(***************************************************************************)
(* Model of pwi.focuser.PlaneWaveFocuserDeviceInterface: the connection    *)
(* state, the HTTP requests every public operation sends, and the          *)
(* initialise() retry loop with its one-worker ThreadPoolExecutor.         *)
(*                                                                         *)
(* A public operation other than initialise()/reset() is one blocking call *)
(* and is one action.  initialise() runs do_initialise in a worker thread  *)
(* while the caller blocks in future.result(timeout); caller and worker    *)
(* are modelled as two processes with program counters pc and wpc.         *)
(***************************************************************************)
EXTENDS Integers, Sequences, FiniteSets, TLC

(***************************************************************************)
(* Bounds of the model.                                                    *)
(***************************************************************************)
\* initialise(timeout, retries) is called with retries in 0..MaxRetries
MaxRetries == 2
\* focuser step positions are drawn from 0..MaxPos
MaxPos == 1
\* a run of consecutive connect() calls is followed for MaxRun calls
MaxRun == 2

(***************************************************************************)
(* Program constants.                                                      *)
(***************************************************************************)
\* default value of the retries parameter of initialise(), used by reset()
DefaultRetries == 3

BaseDeviceState == {"DISCONNECTED", "CONNECTED"}
BaseFocuserMovingState == {"IDLE", "MOVING"}

\* URLs of the HTTP command surface
\* a request is <<url, params>>; params is <<>> or <<target>>
EnableReq == <<"/focuser/enable", <<>>>>
DisableReq == <<"/focuser/disable", <<>>>>
StopReq == <<"/focuser/stop", <<>>>>
StatusReq == <<"/status", <<>>>>
GotoReq(p) == <<"/focuser/goto", <<p>>>>

(***************************************************************************)
(* The device, seen from the client: what it answers to a request and how  *)
(* long it takes.                                                          *)
(***************************************************************************)
\* response.raise_for_status() raises HTTPStatusError on "fail"
HttpResp == {"ok", "fail"}

Positions == 0..MaxPos

\* position is Optional[int]: <<>> is None, <<p>> is p
OptPositions == {<<>>} \cup {<<p>> : p \in Positions}

\* a validated status snapshot
Statuses == [is_connected : BOOLEAN, is_enabled : BOOLEAN,
             is_moving : BOOLEAN, position : OptPositions]

\* an answer to GET /status: the HTTP outcome, whether the parsed payload
\* validates, and the snapshot it validates to (read only when it does)
NoStatus == [is_connected |-> FALSE, is_enabled |-> FALSE,
             is_moving |-> FALSE, position |-> <<>>]
StatusResp ==
    {[http |-> "fail", valid |-> FALSE, status |-> NoStatus],
     [http |-> "ok", valid |-> FALSE, status |-> NoStatus]}
    \cup [http : {"ok"}, valid : {TRUE}, status : Statuses]

\* an answer to GET /status read as version information
Versions == {<<1, 2, 3>>}
NoVersion == <<0, 0, 0>>
VersionResp ==
    {[http |-> "fail", valid |-> FALSE, version |-> NoVersion],
     [http |-> "ok", valid |-> FALSE, version |-> NoVersion]}
    \cup [http : {"ok"}, valid : {TRUE}, version : Versions]

\* a returned value: None, a bool, an int, a status or a version triple
RetNone == [kind |-> "None", b |-> FALSE, n |-> 0, s |-> NoStatus, v |-> NoVersion]
RetBool(x) == [RetNone EXCEPT !.kind = "bool", !.b = x]
RetInt(x) == [RetNone EXCEPT !.kind = "int", !.n = x]
RetStatus(x) == [RetNone EXCEPT !.kind = "status", !.s = x]
RetVersion(x) == [RetNone EXCEPT !.kind = "version", !.v = x]

\* how long a request made by an initialise attempt takes, relative to the
\* attempt's deadline: "fast" may complete before it, "slow" completes only
\* after it, "hang" never completes
Latencies == {"fast", "slow", "hang"}

VARIABLES
    state,            \* self.state
    moving_state,     \* self._moving_state
    target,           \* self._target_step_position
    is_enabled_attr,  \* self._is_enabled
    pc,               \* caller: "idle" | "loop" | "wait" | "join"
    i,                \* initialise: the loop counter i
    retries,          \* initialise: the retries argument
    pending,          \* initialise: what the caller does once the with block exits
    wpc,              \* worker: "none" | "start" | "enable_sent" | "status_sent" | "done"
    wlat,             \* worker: latency of the request in flight
    wres,             \* worker: how do_initialise ended ("ok" or the exception)
    lastOp,           \* observation: the public operation called last
    preState,         \* observation: self.state when it was called
    outcome,          \* observation: "return", the exception raised, or "running"
    retval,           \* observation: the value returned (RetNone for None)
    sent,             \* observation: the requests the operation has sent, in order
    recv,             \* observation: the HTTP outcome of each request answered
    seen,             \* observation: the validated status the call fetched, if any
    attempts,         \* observation: executor.submit calls of this initialise
    attemptSent,      \* observation: the requests the current attempt has sent
    hist              \* observation: history of connects, enables and latencies

vars == <<state, moving_state, target, is_enabled_attr, pc, i, retries, pending,
          wpc, wlat, wres, lastOp, preState, outcome, retval, sent, recv,
          seen, attempts, attemptSent, hist>>

devVars == <<state, moving_state, target, is_enabled_attr>>
initVars == <<i, retries, pending, wpc, wlat, wres, attempts, attemptSent>>

\* number of occurrences of the request req in the request sequence s
RECURSIVE Count(_, _)
Count(s, req) ==
    IF s = <<>> THEN 0
    ELSE (IF Head(s) = req THEN 1 ELSE 0) + Count(Tail(s), req)

\* hist.connected : a connect() has returned normally and no disconnect()
\*                  has returned normally since
\* hist.run       : connect() calls made since the last successful enable,
\*                  -1 when another operation was called in between
\* hist.runEnables: enable requests sent by that successful connect() and
\*                  the connect() calls following it
\* hist.enableOk  : every enable request of this initialise got a success
\* hist.statusSlow: every status request of this initialise outlasted the deadline
HistInit == [connected |-> FALSE, run |-> -1, runEnables |-> 0,
             enableOk |-> TRUE, statusSlow |-> TRUE]

(***************************************************************************)
(* The public operations as functions of self.state and of the device's    *)
(* answers.  Each yields the requests sent, how the call ends ("return" or *)
(* the exception raised) and, where it applies, the new state or the       *)
(* returned value.                                                         *)
(***************************************************************************)

\* connect() without its early return: the enable request is always sent
ConnectSendsAlways(st) == <<EnableReq>>

\* connect(): no request when already CONNECTED, else GET /focuser/enable
ConnectSends(st) ==
    IF st = "CONNECTED" THEN <<>> ELSE <<EnableReq>>

ConnectOutcome(st, resp) ==
    IF st = "CONNECTED" THEN "return"
    ELSE IF resp = "fail" THEN "HTTPStatusError"
    ELSE "return"

\* connect() assigning the state before raise_for_status()
ConnectStateEager(st, resp) == "CONNECTED"

\* connect() without its state assignment
ConnectStateUnassigned(st, resp) == st

ConnectState(st, resp) ==
    IF st = "CONNECTED" THEN st
    ELSE IF resp = "fail" THEN st
    ELSE "CONNECTED"

\* abort_move(): GET /focuser/stop, unconditionally
AbortMoveSends == <<StopReq>>

AbortMoveOutcome(stopResp) ==
    IF stopResp = "fail" THEN "HTTPStatusError" ELSE "return"

\* disconnect() without its abort_move() call
DisconnectSendsNoAbort(st, stopResp) ==
    IF st = "DISCONNECTED" THEN <<>> ELSE <<DisableReq>>

\* disconnect(): no-op when DISCONNECTED, else abort_move(), then
\* GET /focuser/disable, then the state assignment
DisconnectSends(st, stopResp) ==
    IF st = "DISCONNECTED" THEN <<>>
    ELSE IF AbortMoveOutcome(stopResp) # "return" THEN AbortMoveSends
    ELSE AbortMoveSends \o <<DisableReq>>

DisconnectOutcome(st, stopResp, disableResp) ==
    IF st = "DISCONNECTED" THEN "return"
    ELSE IF AbortMoveOutcome(stopResp) # "return" THEN AbortMoveOutcome(stopResp)
    ELSE IF disableResp = "fail" THEN "HTTPStatusError"
    ELSE "return"

DisconnectState(st, stopResp, disableResp) ==
    IF st = "DISCONNECTED" THEN st
    ELSE IF AbortMoveOutcome(stopResp) # "return" THEN st
    ELSE IF disableResp = "fail" THEN st
    ELSE "DISCONNECTED"

\* get_status(): None and no request when DISCONNECTED, else GET /status,
\* raise_for_status, parse, model_validate
GetStatusSends(st) ==
    IF st = "DISCONNECTED" THEN <<>> ELSE <<StatusReq>>

\* get_status() without its DISCONNECTED guard
GetStatusUnguarded(st, r) ==
    IF r.http = "fail"
      THEN [sends |-> <<StatusReq>>, outcome |-> "HTTPStatusError", value |-> <<>>]
    ELSE IF ~r.valid
      THEN [sends |-> <<StatusReq>>, outcome |-> "ValidationError", value |-> <<>>]
    ELSE [sends |-> <<StatusReq>>, outcome |-> "return", value |-> <<r.status>>]

GetStatus(st, r) ==
    IF st = "DISCONNECTED"
      THEN [sends |-> GetStatusSends(st), outcome |-> "return", value |-> <<>>]
    ELSE IF r.http = "fail"
      THEN [sends |-> GetStatusSends(st), outcome |-> "HTTPStatusError", value |-> <<>>]
    ELSE IF ~r.valid
      THEN [sends |-> GetStatusSends(st), outcome |-> "ValidationError", value |-> <<>>]
    ELSE [sends |-> GetStatusSends(st), outcome |-> "return", value |-> <<r.status>>]

\* `not status`: only None is falsy, a validated model is truthy
NotStatus(v) == v = <<>>

\* is_connected() trusting the local state alone
IsConnectedLocalOnly(st, r) ==
    IF st = "DISCONNECTED"
      THEN [sends |-> <<>>, outcome |-> "return", value |-> RetBool(FALSE)]
    ELSE LET g == GetStatus(st, r) IN
      IF g.outcome # "return"
        THEN [sends |-> g.sends, outcome |-> g.outcome, value |-> RetNone]
      ELSE [sends |-> g.sends, outcome |-> "return",
            value |-> RetBool(st = "CONNECTED")]

\* is_connected()
IsConnected(st, r) ==
    IF st = "DISCONNECTED"
      THEN [sends |-> <<>>, outcome |-> "return", value |-> RetBool(FALSE)]
    ELSE LET g == GetStatus(st, r) IN
      IF g.outcome # "return"
        THEN [sends |-> g.sends, outcome |-> g.outcome, value |-> RetNone]
      ELSE IF NotStatus(g.value)
        THEN [sends |-> g.sends, outcome |-> "return", value |-> RetBool(FALSE)]
      ELSE [sends |-> g.sends, outcome |-> "return",
            value |-> RetBool(st = "CONNECTED" /\ g.value[1].is_connected)]

\* is_ready() without the test of status.is_moving
IsReadyIgnoresMoving(st, r) ==
    IF st = "DISCONNECTED"
      THEN [sends |-> <<>>, outcome |-> "return", value |-> RetBool(FALSE)]
    ELSE LET g == GetStatus(st, r) IN
      IF g.outcome # "return"
        THEN [sends |-> g.sends, outcome |-> g.outcome, value |-> RetNone]
      ELSE IF NotStatus(g.value)
        THEN [sends |-> g.sends, outcome |-> "return", value |-> RetBool(FALSE)]
      ELSE [sends |-> g.sends, outcome |-> "return",
            value |-> RetBool(st = "CONNECTED" /\ g.value[1].is_connected
                        /\ g.value[1].is_enabled)]

\* is_ready()
IsReady(st, r) ==
    IF st = "DISCONNECTED"
      THEN [sends |-> <<>>, outcome |-> "return", value |-> RetBool(FALSE)]
    ELSE LET g == GetStatus(st, r) IN
      IF g.outcome # "return"
        THEN [sends |-> g.sends, outcome |-> g.outcome, value |-> RetNone]
      ELSE IF NotStatus(g.value)
        THEN [sends |-> g.sends, outcome |-> "return", value |-> RetBool(FALSE)]
      ELSE [sends |-> g.sends, outcome |-> "return",
            value |-> RetBool(st = "CONNECTED" /\ g.value[1].is_connected
                        /\ g.value[1].is_enabled /\ ~g.value[1].is_moving)]

\* get_driver_version(): (0, 0, 0) and no request when DISCONNECTED, else
\* GET /status read as version information
GetDriverVersion(st, r) ==
    IF st = "DISCONNECTED"
      THEN [sends |-> <<>>, outcome |-> "return", value |-> RetVersion(<<0, 0, 0>>)]
    ELSE IF r.http = "fail"
      THEN [sends |-> <<StatusReq>>, outcome |-> "HTTPStatusError", value |-> RetNone]
    ELSE IF ~r.valid
      THEN [sends |-> <<StatusReq>>, outcome |-> "ValidationError", value |-> RetNone]
    ELSE [sends |-> <<StatusReq>>, outcome |-> "return", value |-> RetVersion(r.version)]

\* is_moving() reporting the hardware flag alone
IsMovingHardwareOnly(st, mv, tgt, r) ==
    LET g == GetStatus(st, r) IN
      IF g.outcome # "return"
        THEN [sends |-> g.sends, outcome |-> g.outcome, value |-> RetNone]
      ELSE IF NotStatus(g.value)
        THEN [sends |-> g.sends, outcome |-> "RuntimeError", value |-> RetNone]
      ELSE [sends |-> g.sends, outcome |-> "return",
            value |-> RetBool(g.value[1].is_moving)]

\* is_moving()
IsMoving(st, mv, tgt, r) ==
    LET g == GetStatus(st, r) IN
      IF g.outcome # "return"
        THEN [sends |-> g.sends, outcome |-> g.outcome, value |-> RetNone]
      ELSE IF NotStatus(g.value)
        THEN [sends |-> g.sends, outcome |-> "RuntimeError", value |-> RetNone]
      ELSE [sends |-> g.sends, outcome |-> "return",
            value |-> RetBool(g.value[1].is_moving /\ mv = "MOVING"
                        /\ <<tgt>> # g.value[1].position)]

\* is_enabled(): also stores status.is_enabled in self._is_enabled
IsEnabled(st, r) ==
    LET g == GetStatus(st, r) IN
      IF g.outcome # "return"
        THEN [sends |-> g.sends, outcome |-> g.outcome, value |-> RetNone]
      ELSE IF NotStatus(g.value)
        THEN [sends |-> g.sends, outcome |-> "RuntimeError", value |-> RetNone]
      ELSE [sends |-> g.sends, outcome |-> "return",
            value |-> RetBool(g.value[1].is_enabled /\ g.value[1].is_enabled)]

\* get_position() answering with the recorded target
GetPositionReturnsTarget(st, r) ==
    LET g == GetStatus(st, r) IN
      IF g.outcome # "return"
        THEN [sends |-> g.sends, outcome |-> g.outcome, value |-> RetNone]
      ELSE IF NotStatus(g.value)
        THEN [sends |-> g.sends, outcome |-> "RuntimeError", value |-> RetNone]
      ELSE IF g.value[1].position = <<>>
        THEN [sends |-> g.sends, outcome |-> "RuntimeError", value |-> RetNone]
      ELSE [sends |-> g.sends, outcome |-> "return", value |-> RetInt(target)]

\* get_position()
GetPosition(st, r) ==
    LET g == GetStatus(st, r) IN
      IF g.outcome # "return"
        THEN [sends |-> g.sends, outcome |-> g.outcome, value |-> RetNone]
      ELSE IF NotStatus(g.value)
        THEN [sends |-> g.sends, outcome |-> "RuntimeError", value |-> RetNone]
      ELSE IF g.value[1].position = <<>>
        THEN [sends |-> g.sends, outcome |-> "RuntimeError", value |-> RetNone]
      ELSE [sends |-> g.sends, outcome |-> "return", value |-> RetInt(g.value[1].position[1])]

\* set_position(position)
SetPositionSends(p) == <<GotoReq(p)>>

SetPositionOutcome(resp) ==
    IF resp = "fail" THEN "HTTPStatusError" ELSE "return"

Init ==
    /\ state = "DISCONNECTED"
    /\ moving_state = "IDLE"
    /\ target = 0
    /\ is_enabled_attr = FALSE
    /\ pc = "idle"
    /\ i = 0
    /\ retries = 0
    /\ pending = "none"
    /\ wpc = "none"
    /\ wlat = "fast"
    /\ wres = "none"
    /\ lastOp = "none"
    /\ preState = "DISCONNECTED"
    /\ outcome = "none"
    /\ retval = RetNone
    /\ sent = <<>>
    /\ recv = <<>>
    /\ seen = <<>>
    /\ attempts = 0
    /\ attemptSent = <<>>
    /\ hist = HistInit

(***************************************************************************)
(* Public operations, called while no initialise() is in progress.         *)
(***************************************************************************)

\* the locals of an initialise() call that has ended (its loop counter,
\* executor and future) are gone when the next operation is called
ForgetInitialise ==
    /\ i' = 0
    /\ retries' = 0
    /\ pending' = "none"
    /\ wpc' = "none"
    /\ wlat' = "fast"
    /\ wres' = "none"
    /\ attempts' = 0
    /\ attemptSent' = <<>>

\* what the caller observes of a completed call
\* the answers to the requests reqs, of which resps are those the device
\* would give in order
Answers(reqs, resps) == SubSeq(resps, 1, Len(reqs))

Observe(op, out, val, reqs, resps) ==
    /\ lastOp' = op
    /\ preState' = state
    /\ outcome' = out
    /\ retval' = val
    /\ sent' = reqs
    /\ recv' = Answers(reqs, resps)

\* the validated status in the answer r to the requests reqs: <<>> when no
\* request was sent, the request failed or the payload did not validate
StatusSeen(reqs, r) ==
    IF reqs # <<>> /\ r.http = "ok" /\ r.valid THEN <<r.status>> ELSE <<>>

\* an operation other than connect() ends a run of connect() calls
EndRun(h) == [h EXCEPT !.run = -1, !.runEnables = 0]

connect ==
    /\ pc = "idle"
    /\ hist.run < MaxRun
    /\ \E resp \in HttpResp :
         LET out == ConnectOutcome(state, resp)
             started == state = "DISCONNECTED" /\ resp = "ok"
         IN
         /\ state' = ConnectState(state, resp)
         /\ Observe("connect", out, RetNone, ConnectSends(state), <<resp>>)
         /\ seen' = <<>>
         /\ hist' = [hist EXCEPT
                       !.connected = IF out = "return" THEN TRUE ELSE @,
                       !.run = IF started THEN 0
                               ELSE IF @ >= 0 THEN @ + 1 ELSE -1,
                       !.runEnables = IF started THEN 1
                                      ELSE IF hist.run >= 0
                                        THEN @ + Len(ConnectSends(state))
                                      ELSE 0]
    /\ UNCHANGED <<moving_state, target, is_enabled_attr, pc>>
    /\ ForgetInitialise

disconnect ==
    /\ pc = "idle"
    /\ \E stopResp \in HttpResp, disableResp \in HttpResp :
         LET out == DisconnectOutcome(state, stopResp, disableResp) IN
         /\ state' = DisconnectState(state, stopResp, disableResp)
         /\ Observe("disconnect", out, RetNone, DisconnectSends(state, stopResp),
                    <<stopResp, disableResp>>)
         /\ seen' = <<>>
         /\ hist' = [EndRun(hist) EXCEPT
                       !.connected = IF out = "return" THEN FALSE ELSE @]
    /\ UNCHANGED <<moving_state, target, is_enabled_attr, pc>>
    /\ ForgetInitialise

\* a query: it sends its requests and returns or raises
Query(op, res, r) ==
    /\ Observe(op, res.outcome, res.value, res.sends, <<r.http>>)
    /\ seen' = StatusSeen(res.sends, r)
    /\ hist' = EndRun(hist)

get_status ==
    /\ pc = "idle"
    /\ \E r \in StatusResp :
         LET g == GetStatus(state, r) IN
         Query("get_status",
               [g EXCEPT !.value = IF NotStatus(@) THEN RetNone ELSE RetStatus(@[1])],
               r)
    /\ UNCHANGED <<devVars, pc>>
    /\ ForgetInitialise

is_connected ==
    /\ pc = "idle"
    /\ \E r \in StatusResp : Query("is_connected", IsConnected(state, r), r)
    /\ UNCHANGED <<devVars, pc>>
    /\ ForgetInitialise

is_ready ==
    /\ pc = "idle"
    /\ \E r \in StatusResp : Query("is_ready", IsReady(state, r), r)
    /\ UNCHANGED <<devVars, pc>>
    /\ ForgetInitialise

get_driver_version ==
    /\ pc = "idle"
    /\ \E r \in VersionResp :
         LET res == GetDriverVersion(state, r) IN
         /\ Observe("get_driver_version", res.outcome, res.value, res.sends,
                    <<r.http>>)
         /\ seen' = <<>>
         /\ hist' = EndRun(hist)
    /\ UNCHANGED <<devVars, pc>>
    /\ ForgetInitialise

is_moving ==
    /\ pc = "idle"
    /\ \E r \in StatusResp :
         Query("is_moving", IsMoving(state, moving_state, target, r), r)
    /\ UNCHANGED <<devVars, pc>>
    /\ ForgetInitialise

is_enabled ==
    /\ pc = "idle"
    /\ \E r \in StatusResp :
         LET res == IsEnabled(state, r)
             g == GetStatus(state, r)
         IN
         /\ Query("is_enabled", res, r)
         /\ is_enabled_attr' =
              IF g.outcome = "return" /\ ~NotStatus(g.value)
                THEN g.value[1].is_enabled
              ELSE is_enabled_attr
    /\ UNCHANGED <<state, moving_state, target, pc>>
    /\ ForgetInitialise

get_position ==
    /\ pc = "idle"
    /\ \E r \in StatusResp : Query("get_position", GetPosition(state, r), r)
    /\ UNCHANGED <<devVars, pc>>
    /\ ForgetInitialise

\* set_position() recording the target only once the goto request succeeded
set_position_records_after ==
    /\ pc = "idle"
    /\ \E p \in Positions, resp \in HttpResp :
         /\ target' = IF resp = "ok" THEN p ELSE target
         /\ Observe("set_position", SetPositionOutcome(resp), RetNone,
                    SetPositionSends(p), <<resp>>)
    /\ seen' = <<>>
    /\ hist' = EndRun(hist)
    /\ UNCHANGED <<state, moving_state, is_enabled_attr, pc>>
    /\ ForgetInitialise

\* set_position() also marking the focuser as MOVING
set_position_marks_moving ==
    /\ pc = "idle"
    /\ \E p \in Positions, resp \in HttpResp :
         /\ target' = p
         /\ Observe("set_position", SetPositionOutcome(resp), RetNone,
                    SetPositionSends(p), <<resp>>)
    /\ moving_state' = "MOVING"
    /\ seen' = <<>>
    /\ hist' = EndRun(hist)
    /\ UNCHANGED <<state, is_enabled_attr, pc>>
    /\ ForgetInitialise

set_position ==
    /\ pc = "idle"
    /\ \E p \in Positions, resp \in HttpResp :
         /\ target' = p
         /\ Observe("set_position", SetPositionOutcome(resp), RetNone,
                    SetPositionSends(p), <<resp>>)
    /\ seen' = <<>>
    /\ hist' = EndRun(hist)
    /\ UNCHANGED <<state, moving_state, is_enabled_attr, pc>>
    /\ ForgetInitialise

abort_move ==
    /\ pc = "idle"
    /\ \E stopResp \in HttpResp :
         Observe("abort_move", AbortMoveOutcome(stopResp), RetNone, AbortMoveSends,
                 <<stopResp>>)
    /\ seen' = <<>>
    /\ hist' = EndRun(hist)
    /\ UNCHANGED <<devVars, pc>>
    /\ ForgetInitialise

(***************************************************************************)
(* initialise(timeout, retries): the caller's loop and the worker running  *)
(* do_initialise.                                                          *)
(***************************************************************************)

\* the call begins: i = 0
BeginInitialise(op, r, reqs, resps, h) ==
    /\ pc' = "loop"
    /\ i' = 0
    /\ retries' = r
    /\ attempts' = 0
    /\ attemptSent' = <<>>
    /\ pending' = "none"
    /\ lastOp' = op
    /\ outcome' = "running"
    /\ retval' = RetNone
    /\ sent' = reqs
    /\ recv' = Answers(reqs, resps)
    /\ seen' = <<>>
    /\ hist' = [EndRun(h) EXCEPT !.enableOk = TRUE, !.statusSlow = TRUE]

\* the call ends: it returns None or raises exc
EndInitialise(out) ==
    /\ pc' = "idle"
    /\ outcome' = out
    /\ wpc' = "none"
    /\ pending' = "none"

initialise ==
    /\ pc = "idle"
    /\ \E r \in 0..MaxRetries : BeginInitialise("initialise", r, <<>>, <<>>, hist)
    /\ preState' = state
    /\ UNCHANGED <<devVars, wpc, wlat, wres>>

\* reset(): disconnect(), then initialise() with its default arguments
reset ==
    /\ pc = "idle"
    /\ \E stopResp \in HttpResp, disableResp \in HttpResp :
         LET out == DisconnectOutcome(state, stopResp, disableResp)
             reqs == DisconnectSends(state, stopResp)
         IN
         /\ state' = DisconnectState(state, stopResp, disableResp)
         /\ preState' = state
         /\ IF out = "return"
              THEN BeginInitialise("reset", DefaultRetries, reqs,
                                   <<stopResp, disableResp>>,
                                   [hist EXCEPT !.connected = FALSE])
              ELSE /\ Observe("reset", out, RetNone, reqs, <<stopResp, disableResp>>)
                   /\ seen' = <<>>
                   /\ hist' = EndRun(hist)
                   /\ UNCHANGED <<pc, i, retries, attempts, attemptSent, pending>>
    /\ UNCHANGED <<moving_state, target, is_enabled_attr, wpc, wlat, wres>>

\* the loop with the test i <= retries
initialise_loop_inclusive ==
    /\ pc = "loop"
    /\ IF i <= retries
         THEN /\ pc' = "wait"
              /\ wpc' = "start"
              /\ wres' = "none"
              /\ attempts' = attempts + 1
              /\ attemptSent' = <<>>
              /\ UNCHANGED <<outcome, pending>>
         ELSE /\ EndInitialise("return")
              /\ UNCHANGED <<wres, attempts, attemptSent>>
    /\ UNCHANGED <<devVars, i, retries, wlat, lastOp, preState, retval, seen, sent, recv,
                   hist>>

\* while i < retries: submit do_initialise to a fresh one-worker executor;
\* falling off the loop returns None
initialise_loop ==
    /\ pc = "loop"
    /\ IF i < retries
         THEN /\ pc' = "wait"
              /\ wpc' = "start"
              /\ wres' = "none"
              /\ attempts' = attempts + 1
              /\ attemptSent' = <<>>
              /\ UNCHANGED <<outcome, pending>>
         ELSE /\ EndInitialise("return")
              /\ UNCHANGED <<wres, attempts, attemptSent>>
    /\ UNCHANGED <<devVars, i, retries, wlat, lastOp, preState, retval, seen, sent, recv,
                   hist>>

\* the worker sends a request that will take lat
WorkerSends(reqs, lat) ==
    /\ wlat' = lat
    /\ sent' = sent \o reqs
    /\ attemptSent' = attemptSent \o reqs

\* the worker's request in flight can complete now
CanComplete == wlat = "fast" \/ (wlat = "slow" /\ pc # "wait")

\* do_initialise resetting the state before it tests it
do_initialise_resets_first ==
    /\ wpc = "start"
    /\ state' = "DISCONNECTED"
    /\ moving_state' = "IDLE"
    /\ wpc' = "enable_sent"
    /\ \E lat \in Latencies : WorkerSends(ConnectSends("DISCONNECTED"), lat)
    /\ UNCHANGED <<wres, target, is_enabled_attr, pc, i, retries, pending, lastOp,
                   preState, outcome, retval, seen, recv, attempts, hist>>

\* do_initialise, up to the enable request of connect()
do_initialise ==
    /\ wpc = "start"
    /\ IF state = "CONNECTED"
         THEN /\ wpc' = "done"
              /\ wres' = "ok"
              /\ UNCHANGED <<state, moving_state, wlat, sent, attemptSent>>
         ELSE /\ state' = "DISCONNECTED"
              /\ moving_state' = "IDLE"
              /\ wpc' = "enable_sent"
              /\ \E lat \in Latencies : WorkerSends(ConnectSends("DISCONNECTED"), lat)
              /\ UNCHANGED wres
    /\ UNCHANGED <<target, is_enabled_attr, pc, i, retries, pending, lastOp,
                   preState, outcome, retval, seen, recv, attempts, hist>>

\* do_initialise: the enable response arrives, connect() ends, and
\* get_status() sends its request
do_initialise_connect ==
    /\ wpc = "enable_sent"
    /\ CanComplete
    /\ \E resp \in HttpResp :
         LET out == ConnectOutcome(state, resp)
             st == ConnectState(state, resp)
             h == [hist EXCEPT
                     !.connected = IF out = "return" THEN TRUE ELSE @,
                     !.enableOk = @ /\ resp = "ok"]
         IN
         /\ state' = st
         /\ recv' = Append(recv, resp)
         /\ IF out # "return"
              THEN /\ wpc' = "done"
                   /\ wres' = out
                   /\ hist' = h
                   /\ UNCHANGED <<wlat, sent, attemptSent>>
              ELSE IF GetStatusSends(st) = <<>>
                THEN /\ wpc' = "done"
                     /\ wres' = "RuntimeError"
                     /\ hist' = h
                     /\ UNCHANGED <<wlat, sent, attemptSent>>
                ELSE /\ wpc' = "status_sent"
                     /\ \E lat \in Latencies :
                          /\ WorkerSends(GetStatusSends(st), lat)
                          /\ hist' = [h EXCEPT !.statusSlow = @ /\ lat # "fast"]
                     /\ UNCHANGED wres
    /\ UNCHANGED <<moving_state, target, is_enabled_attr, pc, i, retries, pending,
                   lastOp, preState, outcome, retval, seen, attempts>>

\* do_initialise: the status response arrives and do_initialise ends
do_initialise_status ==
    /\ wpc = "status_sent"
    /\ CanComplete
    /\ \E r \in StatusResp :
         LET g == GetStatus(state, r) IN
         /\ wres' = IF g.outcome # "return" THEN g.outcome
                    ELSE IF NotStatus(g.value) THEN "RuntimeError"
                    ELSE "ok"
         /\ recv' = Append(recv, r.http)
    /\ wpc' = "done"
    /\ UNCHANGED <<devVars, pc, i, retries, pending, wlat, lastOp, preState,
                   outcome, retval, seen, sent, attempts, attemptSent, hist>>

\* future.result(timeout) returns or re-raises what do_initialise raised
future_result ==
    /\ pc = "wait"
    /\ wpc = "done"
    /\ IF wres = "ok"
         THEN EndInitialise("return") /\ UNCHANGED i
       ELSE IF wres = "RuntimeError"
         THEN IF i = retries - 1
                THEN EndInitialise("RuntimeError") /\ UNCHANGED i
                ELSE /\ pc' = "loop"
                     /\ i' = i + 1
                     /\ wpc' = "none"
                     /\ UNCHANGED <<outcome, pending>>
       ELSE EndInitialise(wres) /\ UNCHANGED i
    /\ UNCHANGED <<devVars, retries, wlat, wres, lastOp, preState, retval, seen, sent,
                   recv, attempts, attemptSent, hist>>

\* the timeout raised to the caller on every attempt
future_timeout_always_raises ==
    /\ pc = "wait"
    /\ wpc # "done"
    /\ pending' = "TimeoutError"
    /\ pc' = "join"
    /\ UNCHANGED <<devVars, i, retries, wpc, wlat, wres, lastOp, preState, outcome,
                   retval, seen, sent, recv, attempts, attemptSent, hist>>

\* future.result(timeout) raises TimeoutError: the deadline passed and
\* do_initialise has not ended
future_timeout ==
    /\ pc = "wait"
    /\ wpc # "done"
    /\ pending' = IF i = retries - 1 THEN "TimeoutError" ELSE "continue"
    /\ pc' = "join"
    /\ UNCHANGED <<devVars, i, retries, wpc, wlat, wres, lastOp, preState, outcome,
                   retval, seen, sent, recv, attempts, attemptSent, hist>>

\* leaving the with block without waiting for the worker, as
\* shutdown(wait=False) would: the worker keeps running
executor_exit_no_wait ==
    /\ pc = "join"
    /\ IF pending = "TimeoutError"
         THEN /\ pc' = "idle"
              /\ outcome' = "TimeoutError"
              /\ pending' = "none"
              /\ UNCHANGED i
         ELSE /\ pc' = "loop"
              /\ i' = i + 1
              /\ pending' = "none"
              /\ UNCHANGED outcome
    /\ UNCHANGED <<devVars, retries, wpc, wlat, wres, lastOp, preState, retval, seen,
                   sent, recv, attempts, attemptSent, hist>>

\* leaving the with block after a timeout: ThreadPoolExecutor.__exit__ is
\* shutdown(wait=True), which returns once the worker has ended
executor_exit ==
    /\ pc = "join"
    /\ wpc = "done"
    /\ IF pending = "TimeoutError"
         THEN EndInitialise("TimeoutError") /\ UNCHANGED i
         ELSE /\ pc' = "loop"
              /\ i' = i + 1
              /\ wpc' = "none"
              /\ pending' = "none"
              /\ UNCHANGED outcome
    /\ UNCHANGED <<devVars, retries, wlat, wres, lastOp, preState, retval, seen, sent,
                   recv, attempts, attemptSent, hist>>

Next ==
    \/ connect
    \/ disconnect
    \/ get_status
    \/ is_connected
    \/ is_ready
    \/ get_driver_version
    \/ is_moving
    \/ is_enabled
    \/ get_position
    \/ set_position
    \/ abort_move
    \/ initialise
    \/ reset
    \/ initialise_loop
    \/ do_initialise
    \/ do_initialise_connect
    \/ do_initialise_status
    \/ future_result
    \/ future_timeout
    \/ executor_exit

Spec == Init /\ [][Next]_vars

\* the threads of an initialise() call keep running: the caller's loop, the
\* worker, the wait on the future and the executor's shutdown each take
\* their next step when they can
Fairness ==
    /\ WF_vars(initialise_loop)
    /\ WF_vars(do_initialise)
    /\ WF_vars(do_initialise_connect)
    /\ WF_vars(do_initialise_status)
    /\ WF_vars(future_result \/ future_timeout)
    /\ WF_vars(executor_exit)

LiveSpec == Spec /\ Fairness

TypeOK ==
    /\ state \in BaseDeviceState
    /\ moving_state \in BaseFocuserMovingState
    /\ target \in Positions
    /\ is_enabled_attr \in BOOLEAN
    /\ pc \in {"idle", "loop", "wait", "join"}
    /\ wpc \in {"none", "start", "enable_sent", "status_sent", "done"}

(***************************************************************************)
(* Properties.                                                             *)
(***************************************************************************)

\* a call of op has just ended
Ended(op) == lastOp = op /\ pc = "idle"

\* C1: disconnect() called while state is CONNECTED always ends with
\* state == DISCONNECTED, whether it returns or raises, also when the stop
\* or the disable request gets a non-success response.
C1_DisconnectAlwaysDisconnects ==
    (Ended("disconnect") /\ preState = "CONNECTED") => state = "DISCONNECTED"

\* C2: connect() called in state DISCONNECTED whose enable request fails
\* raises the failure and leaves state DISCONNECTED; state becomes CONNECTED
\* only when the enable request succeeded.
C2_ConnectFailureLeavesDisconnected ==
    (Ended("connect") /\ preState = "DISCONNECTED") =>
        /\ sent = <<EnableReq>>
        /\ recv = <<"fail">> => (outcome = "HTTPStatusError" /\ state = "DISCONNECTED")
        /\ state = "CONNECTED" => (recv = <<"ok">> /\ outcome = "return")

C2_Witness ==
    /\ Ended("connect")
    /\ preState = "DISCONNECTED"
    /\ recv = <<"fail">>
    /\ outcome = "HTTPStatusError"
    /\ state = "DISCONNECTED"

\* C3: connect() called while state is CONNECTED sends no request and leaves
\* state CONNECTED; a successful connect() followed by any number of
\* connect() calls has sent exactly one enable request in total.
C3_ConnectIdempotent ==
    /\ (Ended("connect") /\ preState = "CONNECTED") =>
           (sent = <<>> /\ state = "CONNECTED" /\ outcome = "return")
    /\ hist.run >= 0 => hist.runEnables = 1

C3_Witness ==
    /\ Ended("connect")
    /\ preState = "CONNECTED"
    /\ hist.run >= 2
    /\ hist.runEnables = 1

\* C4: state starts DISCONNECTED; in every reachable state it is CONNECTED
\* exactly when some connect() (direct or inside initialise) has returned
\* normally and no disconnect() has returned normally since; only connect,
\* disconnect, initialise and reset (which is disconnect then initialise)
\* change it.
C4_StateTracksConnects ==
    /\ state = "DISCONNECTED"
    /\ [](state = "CONNECTED" <=> hist.connected)
    /\ [][state' # state =>
            lastOp' \in {"connect", "disconnect", "initialise", "reset"}]_vars

C4_Witness ==
    /\ Ended("initialise")
    /\ outcome = "TimeoutError"
    /\ preState = "DISCONNECTED"
    /\ state = "CONNECTED"
    /\ hist.connected

\* C5: for every R >= 1, initialise(T, R) started in state DISCONNECTED
\* against a device whose enable request succeeds and whose every status
\* query takes longer than T raises the timeout error after exactly R
\* attempts.
C5_SlowStatusTimesOutAfterR ==
    (/\ Ended("initialise")
     /\ preState = "DISCONNECTED"
     /\ retries >= 1
     /\ hist.enableOk
     /\ hist.statusSlow) =>
        (outcome = "TimeoutError" /\ attempts = retries)

\* C6: a failure of a non-final attempt of initialise, whatever its kind,
\* does not reach the caller: initialise raises only from its final attempt.
C6_OnlyFinalAttemptRaises ==
    (Ended("initialise") /\ outcome # "return") => attempts = retries

\* C7: a timed-out attempt is abandoned without being awaited, so every
\* initialise call eventually ends, also when a request never completes.
C7_InitialiseTerminates ==
    (lastOp = "initialise" /\ pc # "idle") ~> (pc = "idle")

\* C8: initialise returns normally only if the attempt that succeeded
\* called connect() and then made one status query that returned a
\* validated status; it never reports success for an attempt that sent no
\* /status request.
C8_SuccessNeedsStatus ==
    (Ended("initialise") /\ retries >= 1 /\ outcome = "return") =>
        (attemptSent = <<EnableReq, StatusReq>> /\ recv[Len(recv)] = "ok")

\* C9: initialise(timeout, R) submits at most R attempts and sends at most R
\* enable requests and at most R status requests; with R = 0 it makes no
\* attempt and sends nothing.
C9_AtMostRAttempts ==
    lastOp = "initialise" =>
        /\ attempts <= retries
        /\ Count(sent, EnableReq) <= retries
        /\ Count(sent, StatusReq) <= retries
        /\ retries = 0 => (attempts = 0 /\ sent = <<>>)

C9_Witness ==
    /\ Ended("initialise")
    /\ retries >= 2
    /\ attempts = retries
    /\ Count(sent, EnableReq) = retries

\* C10: while state is DISCONNECTED, get_status() returns None,
\* is_connected() and is_ready() return False and get_driver_version()
\* returns (0, 0, 0), each without sending a request.
C10_DisconnectedQueriesSendNothing ==
    (pc = "idle" /\ preState = "DISCONNECTED") =>
        /\ lastOp = "get_status" =>
               (outcome = "return" /\ retval = RetNone /\ sent = <<>>)
        /\ lastOp \in {"is_connected", "is_ready"} =>
               (outcome = "return" /\ retval = RetBool(FALSE) /\ sent = <<>>)
        /\ lastOp = "get_driver_version" =>
               (outcome = "return" /\ retval = RetVersion(<<0, 0, 0>>) /\ sent = <<>>)

C10_Witness ==
    /\ Ended("get_status")
    /\ preState = "DISCONNECTED"
    /\ state = "DISCONNECTED"
    /\ outcome = "return"
    /\ retval = RetNone
    /\ sent = <<>>

\* the status the call fetched
Fetched == seen[1]

\* C11: while CONNECTED, is_moving() returns true exactly when the fetched
\* status has is_moving true, the local moving-state flag is MOVING and the
\* recorded target differs from the status position.
C11_IsMovingTripleCondition ==
    (Ended("is_moving") /\ preState = "CONNECTED" /\ seen # <<>>) =>
        /\ outcome = "return"
        /\ retval = RetBool(/\ Fetched.is_moving
                            /\ moving_state = "MOVING"
                            /\ Fetched.position # <<target>>)

C11_Witness ==
    /\ Ended("is_moving")
    /\ preState = "CONNECTED"
    /\ target # 0
    /\ seen # <<>>
    /\ Fetched.position = <<target>>
    /\ ~Fetched.is_moving
    /\ outcome = "return"
    /\ retval = RetBool(FALSE)

\* C12 as stated: is_ready() returns true exactly when state is CONNECTED
\* and the status fetched by that call has is_connected true, is_enabled
\* true and is_moving false; in every other case (including DISCONNECTED)
\* it returns false.
C12_IsReadyAlwaysReturns ==
    Ended("is_ready") =>
        /\ outcome = "return"
        /\ retval = RetBool(/\ preState = "CONNECTED"
                            /\ seen # <<>>
                            /\ Fetched.is_connected
                            /\ Fetched.is_enabled
                            /\ ~Fetched.is_moving)

\* C12, amended: is_ready() returns true exactly when state is CONNECTED and
\* the status fetched by that call has is_connected true, is_enabled true
\* and is_moving false; while DISCONNECTED, and whenever a status was
\* fetched that does not meet these conditions, it returns false; when state
\* is CONNECTED and the /status request gets a non-success response or its
\* payload does not validate, it raises that error and returns nothing.
C12_IsReadyCondition ==
    Ended("is_ready") =>
        /\ preState = "DISCONNECTED" =>
               (outcome = "return" /\ retval = RetBool(FALSE))
        /\ (preState = "CONNECTED" /\ seen # <<>>) =>
               /\ outcome = "return"
               /\ retval = RetBool(/\ Fetched.is_connected
                                   /\ Fetched.is_enabled
                                   /\ ~Fetched.is_moving)
        /\ (preState = "CONNECTED" /\ seen = <<>>) =>
               /\ sent = <<StatusReq>>
               /\ outcome = (IF recv = <<"fail">> THEN "HTTPStatusError"
                             ELSE "ValidationError")
        /\ retval = RetBool(TRUE) => (preState = "CONNECTED" /\ seen # <<>>)

C12_Witness ==
    /\ Ended("is_ready")
    /\ preState = "CONNECTED"
    /\ seen # <<>>
    /\ Fetched.is_connected /\ Fetched.is_enabled /\ ~Fetched.is_moving
    /\ retval = RetBool(TRUE)

\* C13: when state is CONNECTED and the fetched status reports is_connected
\* false, is_connected() returns false and state stays CONNECTED;
\* is_connected(), is_ready() and get_status() never change state.
C13_MismatchReportedNotCorrected ==
    /\ []((Ended("is_connected") /\ preState = "CONNECTED" /\ seen # <<>>
             /\ ~Fetched.is_connected) =>
            (outcome = "return" /\ retval = RetBool(FALSE) /\ state = "CONNECTED"))
    /\ [][lastOp' \in {"is_connected", "is_ready", "get_status"} =>
            state' = state]_vars

C13_Witness ==
    /\ Ended("is_connected")
    /\ preState = "CONNECTED"
    /\ seen # <<>>
    /\ ~Fetched.is_connected
    /\ retval = RetBool(FALSE)
    /\ state = "CONNECTED"

\* C14: a disconnect() started in state CONNECTED sends /focuser/stop first
\* and /focuser/disable only right after it; a disconnect() in state
\* DISCONNECTED sends neither.
C14_StopBeforeDisable ==
    Ended("disconnect") =>
        /\ preState = "CONNECTED" => (sent # <<>> /\ sent[1] = StopReq)
        /\ \A k \in 1..Len(sent) :
               sent[k] = DisableReq => (k > 1 /\ sent[k - 1] = StopReq)
        /\ preState = "DISCONNECTED" => sent = <<>>

C14_Witness ==
    /\ Ended("disconnect")
    /\ preState = "CONNECTED"
    /\ sent = <<StopReq, DisableReq>>

\* C15: while state is DISCONNECTED, set_position(p) consults state and
\* sends no /focuser/goto request.
C15_SetPositionRefusedWhenDisconnected ==
    (Ended("set_position") /\ preState = "DISCONNECTED") => sent = <<>>

\* C16: while CONNECTED, each of get_status, get_position, is_connected,
\* is_ready, is_moving and is_enabled sends exactly one /status request and
\* its result is a function of that response (and of the local target and
\* moving-state flag for is_moving); get_position() returns the position of
\* the response and raises when the response has none.
C16_FreshStatusEveryCall ==
    (/\ pc = "idle"
     /\ preState = "CONNECTED"
     /\ lastOp \in {"get_status", "get_position", "is_connected", "is_ready",
                    "is_moving", "is_enabled"}) =>
        /\ sent = <<StatusReq>>
        /\ seen = <<>> =>
               outcome = (IF recv = <<"fail">> THEN "HTTPStatusError"
                          ELSE "ValidationError")
        /\ seen # <<>> =>
             /\ lastOp = "get_status" =>
                    (outcome = "return" /\ retval = RetStatus(Fetched))
             /\ lastOp = "get_position" =>
                    IF Fetched.position = <<>>
                      THEN outcome = "RuntimeError"
                      ELSE outcome = "return" /\ retval = RetInt(Fetched.position[1])
             /\ lastOp = "is_connected" =>
                    (outcome = "return" /\ retval = RetBool(Fetched.is_connected))
             /\ lastOp = "is_enabled" =>
                    (outcome = "return" /\ retval = RetBool(Fetched.is_enabled))
             /\ lastOp = "is_ready" =>
                    (outcome = "return" /\ retval.kind = "bool"
                     /\ (retval.b => ~Fetched.is_moving))
             /\ lastOp = "is_moving" =>
                    (outcome = "return" /\ retval.kind = "bool"
                     /\ (retval.b => Fetched.is_moving))

C16_Witness ==
    /\ Ended("get_position")
    /\ preState = "CONNECTED"
    /\ seen # <<>>
    /\ Fetched.position # <<>>
    /\ Fetched.position # <<target>>
    /\ outcome = "return"
    /\ retval = RetInt(Fetched.position[1])

\* C17: set_position(p) records p as the target, sends exactly one
\* /focuser/goto request with target = p and changes neither state nor the
\* moving-state flag; when the request fails the error propagates and the
\* recorded target is still p.
C17_SetPositionRecordsTarget ==
    /\ [](Ended("set_position") =>
            /\ sent = <<GotoReq(target)>>
            /\ recv = <<"fail">> => outcome = "HTTPStatusError"
            /\ recv = <<"ok">> => outcome = "return")
    /\ [][lastOp' = "set_position" =>
            (state' = state /\ moving_state' = moving_state)]_vars

C17_Witness ==
    /\ Ended("set_position")
    /\ recv = <<"fail">>
    /\ outcome = "HTTPStatusError"
    /\ target # 0
    /\ sent = <<GotoReq(target)>>

\* C18: the local moving-state flag is IDLE in every reachable state, so
\* is_moving() returns false or raises, also after set_position(p) while the
\* device reports is_moving true and a position other than p.
C18_MovingFlagAlwaysIdle ==
    /\ moving_state = "IDLE"
    /\ Ended("is_moving") =>
           \/ outcome = "return" /\ retval = RetBool(FALSE)
           \/ outcome \in {"RuntimeError", "HTTPStatusError", "ValidationError"}

C18_Witness ==
    /\ Ended("is_moving")
    /\ preState = "CONNECTED"
    /\ target # 0
    /\ seen # <<>>
    /\ Fetched.is_moving
    /\ Fetched.position # <<target>>
    /\ outcome = "return"
    /\ retval = RetBool(FALSE)

\* C19: no attempt worker is executing when the next attempt is about to be
\* submitted or when initialise has returned or raised: the executor of an
\* attempt is joined first.
C19_WorkerJoinedBeforeNextAttempt ==
    pc \in {"idle", "loop"} => wpc = "none"

C19_Witness ==
    /\ Ended("initialise")
    /\ outcome = "TimeoutError"
    /\ attempts >= 2
    /\ wpc = "none"

\* C20: for every retries >= 1, when initialise returns without raising,
\* state is CONNECTED; a timeout or a RuntimeError is raised only from the
\* final attempt.
C20_ReturnMeansConnected ==
    (Ended("initialise") /\ retries >= 1) =>
        /\ outcome = "return" => state = "CONNECTED"
        /\ outcome \in {"TimeoutError", "RuntimeError"} => attempts = retries

C20_Witness ==
    /\ Ended("initialise")
    /\ retries >= 1
    /\ preState = "DISCONNECTED"
    /\ outcome = "return"
    /\ attemptSent = <<EnableReq, StatusReq>>
    /\ state = "CONNECTED"

\* C21: inside an initialise attempt, once connect() has succeeded the
\* following get_status() sends its request and never returns None, so the
\* "Status not available" RuntimeError is raised neither by do_initialise
\* nor by initialise, on any attempt.
C21_StatusNeverUnavailable ==
    /\ wres # "RuntimeError"
    /\ lastOp \in {"initialise", "reset"} => outcome # "RuntimeError"
    /\ (\/ wpc = "status_sent"
        \/ wpc = "done" /\ wres = "ok" /\ attemptSent # <<>>) =>
           (attemptSent = <<EnableReq, StatusReq>> /\ state = "CONNECTED")

C21_Witness ==
    /\ lastOp = "initialise"
    /\ pc = "wait"
    /\ wpc = "done"
    /\ wres = "ok"
    /\ attemptSent = <<EnableReq, StatusReq>>
    /\ recv[Len(recv)] = "ok"
    /\ state = "CONNECTED"

====
